---------------------------- MODULE Spec2Model ----------------------------
(***************************************************************************)
(* EmailWorker2TG: an email worker that turns an inbound email into        *)
(* MarkdownV2 text, cuts it into bounded segments, re-inserts the links    *)
(* the HTML pass deferred to the module-level queue linksList, and posts   *)
(* the segments and the attachments to Telegram.                           *)
(*                                                                         *)
(* A string is a sequence of characters; a character is a one-character    *)
(* TLA+ string ("&gt;" stands for that HTML entity, "<br>" and "<!doctype>"*)
(* for the markup the rewriter passes through untouched).                  *)
(***************************************************************************)
EXTENDS Integers, Sequences, FiniteSets, TLC

\* ------------------------------------------------------------ bounds
\* Scaled stand-in for MAX_TELEGRAM_MESSAGE_LENGTH = 3500 (part_000:4): the
\* chunker only compares lengths with it, so the model keeps it small.
MAX_TELEGRAM_MESSAGE_LENGTH == 9
\* Most markers in a chunker input text.
MaxMarkers == 2
\* Most descriptors in the queue of a chunker input.
MaxQueue == 3

\* '#'.repeat(15) and /#{15}/
MarkerLen == 15

Min(a, b) == IF a < b THEN a ELSE b

\* ------------------------------------------------------------ strings
RECURSIVE Flatten(_)
Flatten(ss) ==
    IF ss = <<>> THEN <<>> ELSE Head(ss) \o Flatten(Tail(ss))

Marker == [i \in 1..MarkerLen |-> "#"]

\* The first index at which linkReplacer matches in s, 0 when it does not.
FirstMarker(s) ==
    LET hits == {i \in 1..(Len(s) - MarkerLen + 1) :
                    \A j \in 0..(MarkerLen - 1) : s[i + j] = "#"}
    IN  IF hits = {} THEN 0 ELSE CHOOSE i \in hits : \A h \in hits : i <= h

\* text.split(linkReplacer)
RECURSIVE Split(_)
Split(s) ==
    LET i == FirstMarker(s)
    IN  IF i = 0 THEN <<s>>
        ELSE <<SubSeq(s, 1, i - 1)>> \o Split(SubSeq(s, i + MarkerLen, Len(s)))

\* ------------------------------------------------------------ chunker
\* The loop of splitAndPush from offset i (0-based): [arr, rest].
RECURSIVE SplitAndPushFrom(_, _, _)
SplitAndPushFrom(arr, text, i) ==
    IF i >= Len(text) THEN [arr |-> arr, rest |-> <<>>]
    ELSE LET chunk == SubSeq(text, i + 1,
                             Min(i + MAX_TELEGRAM_MESSAGE_LENGTH, Len(text)))
         IN  IF Len(chunk) < MAX_TELEGRAM_MESSAGE_LENGTH
             THEN [arr |-> arr, rest |-> chunk]
             ELSE SplitAndPushFrom(Append(arr, chunk), text,
                                   i + MAX_TELEGRAM_MESSAGE_LENGTH)

\* splitAndPush without the return of the chunk shorter than the limit.
splitAndPushDropsRest(arr, text) ==
    [arr |-> SplitAndPushFrom(arr, text, 0).arr, rest |-> <<>>]

splitAndPush(arr, text) == SplitAndPushFrom(arr, text, 0)

\* The template string of linkEntity: ' [desc](link) '.
linkEntity(link) ==
    <<" ", "[">> \o link.desc \o <<"]", "(">> \o link.link \o <<")", " ">>

\* The pass without the flush of the builder before a link that does not fit.
ChunkStepNoFlush(st, t) ==
    LET b1 == st.builder \o t
        sp == IF Len(b1) > MAX_TELEGRAM_MESSAGE_LENGTH
              THEN splitAndPush(st.chunks, b1)
              ELSE [arr |-> st.chunks, rest |-> b1]
    IN  IF st.queue = <<>>
        THEN [builder |-> sp.rest, chunks |-> sp.arr, queue |-> <<>>]
        ELSE [builder |-> sp.rest \o linkEntity(Head(st.queue)),
              chunks  |-> sp.arr,
              queue   |-> Tail(st.queue)]

\* One pass of the for loop of sendSplitMessage over the fragment t, from the
\* state st = [builder, chunks, queue].
ChunkStep(st, t) ==
    LET b1 == st.builder \o t
        sp == IF Len(b1) > MAX_TELEGRAM_MESSAGE_LENGTH
              THEN splitAndPush(st.chunks, b1)
              ELSE [arr |-> st.chunks, rest |-> b1]
    IN  IF st.queue = <<>>
        THEN [builder |-> sp.rest, chunks |-> sp.arr, queue |-> <<>>]
        ELSE LET le == linkEntity(Head(st.queue))
                 over == Len(sp.rest) + Len(le) > MAX_TELEGRAM_MESSAGE_LENGTH
             IN  [builder |-> (IF over THEN <<>> ELSE sp.rest) \o le,
                  chunks  |-> IF over THEN Append(sp.arr, sp.rest) ELSE sp.arr,
                  queue   |-> Tail(st.queue)]

RECURSIVE ChunkLoop(_, _)
ChunkLoop(st, splits) ==
    IF splits = <<>> THEN st
    ELSE ChunkLoop(ChunkStep(st, Head(splits)), Tail(splits))

\* The segment list without the flush of the builder after the loop.
BuildChunksNoFinalFlush(text, queue) ==
    LET st == ChunkLoop([builder |-> <<>>, chunks |-> <<>>, queue |-> queue],
                        Split(text))
    IN  [chunks |-> st.chunks, queue |-> st.queue]

\* The segment list sendSplitMessage builds from text and the queue, and the
\* queue it leaves: [chunks, queue].
BuildChunks(text, queue) ==
    LET st == ChunkLoop([builder |-> <<>>, chunks |-> <<>>, queue |-> queue],
                        Split(text))
    IN  [chunks |-> IF Len(st.builder) > 0 THEN Append(st.chunks, st.builder)
                    ELSE st.chunks,
         queue  |-> st.queue]

\* ------------------------------------------------------------ escaper
Reserved ==
    {"_", "*", "[", "]", "(", ")", "~", "backtick", ">", "#", "+", "-", "=", "|",
     "{", "}", ".", "!"}

\* The escaper without the lookbehind: every reserved character gets a
\* backslash, an escaped one too.
escapeEveryReserved(text) ==
    Flatten([i \in 1..Len(text) |->
                IF text[i] \in Reserved THEN <<"\\", text[i]>> ELSE <<text[i]>>])

\* text.replace(charsToEscape, '\\$&'), charsToEscape being a character of
\* Reserved that no backslash precedes: the lookbehind reads the input
\* text, not the output. "backtick" stands for that character.
escapeMarkdownV2(text) ==
    Flatten([i \in 1..Len(text) |->
                IF text[i] \in Reserved /\ (i = 1 \/ text[i - 1] # "\\")
                THEN <<"\\", text[i]>> ELSE <<text[i]>>])

\* decode() of html-entities, on the one entity of the model's alphabet.
decode(text) ==
    [i \in 1..Len(text) |-> IF text[i] = "&gt;" THEN ">" ELSE text[i]]

WhiteSpace == {" ", "\n"}

\* String.prototype.trim
RECURSIVE trim(_)
trim(s) ==
    IF s = <<>> THEN s
    ELSE IF Head(s) \in WhiteSpace THEN trim(Tail(s))
    ELSE IF s[Len(s)] \in WhiteSpace THEN trim(SubSeq(s, 1, Len(s) - 1))
    ELSE s

\* ------------------------------------------------------------ transducer
RemovedTags == {"style", "script", "meta", "xml", "head"}
MediaTags == {"img", "video", "iframe", "audio"}
InlineTags == {"span", "strong", "em", "b", "i", "del", "ins", "sub", "sup", "a"}

\* The characters of a tag name, for the description of a media link.
TagChars(tag) ==
    CASE tag = "img" -> <<"i", "m", "g">>
      [] tag = "video" -> <<"v", "i", "d", "e", "o">>
      [] tag = "audio" -> <<"a", "u", "d", "i", "o">>
      [] tag = "iframe" -> <<"i", "f", "r", "a", "m", "e">>
      [] OTHER -> <<tag>>

\* 'link\\-\\>'
FallbackDesc == <<"l", "i", "n", "k", "\\", "-", "\\", ">">>

\* new ElementHandler()
NewHandler == [tag |-> "", herf |-> <<>>, src |-> <<>>, nestedInA |-> FALSE]

\* The callback that keeps the pending target when the anchor has none.
elementKeepsTarget(h, tagName, attr) ==
    IF tagName \in RemovedTags
    THEN [h |-> h, emit |-> <<>>, removed |-> TRUE]
    ELSE IF tagName = "br"
    THEN [h |-> h, emit |-> <<"<br>">>, removed |-> FALSE]
    ELSE [h |-> [tag |-> tagName,
                 herf |-> IF tagName = "a" /\ attr # <<>> THEN attr ELSE h.herf,
                 src |-> IF tagName \in MediaTags THEN attr ELSE h.src,
                 nestedInA |-> IF tagName = "a" THEN TRUE ELSE h.nestedInA],
          emit |-> <<>>, removed |-> FALSE]

\* ElementHandler.element: the handler after the start tag of <tagName> whose
\* href or src attribute is attr (<<>> when missing), and what the rewriter
\* leaves of the tag in its output: [h, emit, removed].
element(h, tagName, attr) ==
    IF tagName \in RemovedTags
    THEN [h |-> h, emit |-> <<>>, removed |-> TRUE]
    ELSE IF tagName = "br"
    THEN [h |-> h, emit |-> <<"<br>">>, removed |-> FALSE]
    ELSE [h |-> [tag |-> tagName,
                 herf |-> IF tagName = "a" THEN attr ELSE h.herf,
                 src |-> IF tagName \in MediaTags THEN attr ELSE h.src,
                 nestedInA |-> IF tagName = "a" THEN TRUE ELSE h.nestedInA],
          emit |-> <<>>, removed |-> FALSE]

\* The end-tag callback registered for an anchor.
onEndTag(h) == [h EXCEPT !.nestedInA = FALSE]

\* ElementHandler.text on the text chunk run (lastInTextNode = last): the
\* handler after it, what stands in the output in the chunk's place, the
\* descriptors pushed to linksList, and whether the chunk was replaced:
\* [h, emit, push, kind].
TextHandler(h, run, last) ==
    LET after == IF h.tag = "td" THEN <<" ">> ELSE <<>>
        esc == escapeMarkdownV2(decode(run))
    IN  IF h.tag = "a" /\ h.herf # <<>>
        THEN [h |-> [h EXCEPT !.herf = <<>>],
              emit |-> Marker \o after,
              push |-> <<[desc |-> IF trim(esc) # <<>> THEN trim(esc)
                                   ELSE FallbackDesc,
                          link |-> h.herf]>>,
              kind |-> "marker"]
        ELSE IF h.tag \in MediaTags /\ ~h.nestedInA
        THEN IF last /\ h.src # <<>>
             THEN [h |-> [h EXCEPT !.tag = ""],
                   emit |-> Marker \o after,
                   push |-> <<[desc |-> TagChars(h.tag), link |-> h.src]>>,
                   kind |-> "marker"]
             ELSE [h |-> h, emit |-> run \o after, push |-> <<>>, kind |-> "raw"]
        ELSE IF h.tag \in InlineTags
        THEN [h |-> h, emit |-> esc \o after, push |-> <<>>, kind |-> "escaped"]
        ELSE [h |-> h, emit |-> esc \o <<"\n">> \o after, push |-> <<>>,
              kind |-> "escaped"]

\* ---- processHtml's pass over the rewriter's output
IndexOf(s, c) ==
    LET hits == {i \in 1..Len(s) : s[i] = c}
    IN  IF hits = {} THEN 0 ELSE CHOOSE i \in hits : \A h \in hits : i <= h

\* Characters whose text ends in '>'.
EndsInGt == {">", "<br>", "<!doctype>"}

\* text.replace(/<!doctype.*>\n?/i, ''): from the first doctype to the last '>'
\* of its line, and the line break after it.
StripDoctype(s) ==
    LET i == IndexOf(s, "<!doctype>")
    IN  IF i = 0 THEN s
        ELSE LET nls == {j \in (i + 1)..Len(s) : s[j] = "\n"}
                 eol == IF nls = {} THEN Len(s) + 1
                        ELSE CHOOSE j \in nls : \A n \in nls : j <= n
                 gts == {j \in i..(eol - 1) : s[j] \in EndsInGt}
                 lastGt == CHOOSE j \in gts : \A g \in gts : g <= j
                 end == IF lastGt + 1 <= Len(s) /\ s[lastGt + 1] = "\n"
                        THEN lastGt + 1 ELSE lastGt
             IN  SubSeq(s, 1, i - 1) \o SubSeq(s, end + 1, Len(s))

\* replaceAll(/[\u200B\u200C\u200D\uFEFF\u2060\u00A0\u034F]/g, ''); "ZW" stands for
\* any of these characters.
StripInvisible(s) == SelectSeq(s, LAMBDA c : c # "ZW")

\* replaceAll(/<\s*br\s*\/?>/g, '\n')
NormalizeBr(s) == [i \in 1..Len(s) |-> IF s[i] = "<br>" THEN "\n" ELSE s[i]]

\* replaceAll(/(\s*\n){2,}/g, '\n'): a match starts at the first character of
\* a white-space run that holds two line breaks or more and ends at the run's
\* last line break.
RECURSIVE CollapseBlankLines(_)
CollapseBlankLines(s) ==
    IF s = <<>> THEN s
    ELSE IF Head(s) \notin WhiteSpace
    THEN <<Head(s)>> \o CollapseBlankLines(Tail(s))
    ELSE LET ends == {j \in 1..Len(s) : \A m \in 1..j : s[m] \in WhiteSpace}
             runEnd == CHOOSE j \in ends : \A e \in ends : e <= j
             nls == {j \in 1..runEnd : s[j] = "\n"}
         IN  IF Cardinality(nls) >= 2
             THEN LET lastNl == CHOOSE j \in nls : \A n \in nls : n <= j
                  IN  <<"\n">> \o SubSeq(s, lastNl + 1, runEnd)
                      \o CollapseBlankLines(SubSeq(s, runEnd + 1, Len(s)))
             ELSE SubSeq(s, 1, runEnd)
                  \o CollapseBlankLines(SubSeq(s, runEnd + 1, Len(s)))

\* What processHtml returns for the rewriter's output.
PostProcess(out) ==
    CollapseBlankLines(NormalizeBr(StripInvisible(StripDoctype(out))))

\* ------------------------------------------------------------ inputs
\* More bounds.  The HTML body of a run's first email is a sequence of at
\* most MaxItems elements (MaxItemsConc when two emails are handled at once),
\* the body of a later email one of at most MaxItemsLater; an email has at
\* most MaxAtt attachments; a run handles at most MaxEmails emails.
MaxItems == 2
MaxItemsLater == 0
MaxItemsConc == 1
MaxAtt == 2
MaxAttConc == 1
MaxEmails == 2

Procs == {1, 2}

El(tag, attr) == [type |-> "element", tag |-> tag, attr |-> attr, run |-> <<>>,
                  last |-> FALSE]
Tx(run, last) == [type |-> "text", tag |-> "", attr |-> <<>>, run |-> run,
                  last |-> last]
EndA == [type |-> "endA", tag |-> "", attr |-> <<>>, run |-> <<>>, last |-> FALSE]

\* A link target of n characters.
Target(n) == [i \in 1..n |-> "u"]

\* The events the rewriter raises for one element of a body: a text node
\* comes as its text and then an empty last chunk.
\*   link      <a href="u">x</a>
\*   longlink  the same with a target that makes the rendered link longer
\*             than MAX_TELEGRAM_MESSAGE_LENGTH
\*   para      <p>y.</p>
\*   br        <br>
\*   img       <img src="s">z
\*   text      z                              (a text node of its own)
\*   link2     <a href="u">xy</a>             (the text comes in two chunks)
\*   nolink    <a>x.</a>                      (an anchor without target)
\*   amedia    <a href="X"><img src="Y"></a>
\*   tamedia   <a href="X">x<img src="Y"></a>
\*   amediat   <a href="X"><img src="Y">x</a>
ItemEvents(item) ==
    CASE item = "link" ->
           <<El("a", Target(1)), Tx(<<"x">>, FALSE), Tx(<<>>, TRUE), EndA>>
      [] item = "longlink" ->
           <<El("a", Target(MAX_TELEGRAM_MESSAGE_LENGTH - 5)),
             Tx(<<"x">>, FALSE), Tx(<<>>, TRUE), EndA>>
      [] item = "para" ->
           <<El("p", <<>>), Tx(<<"y", ".">>, FALSE), Tx(<<>>, TRUE)>>
      [] item = "br" -> <<El("br", <<>>)>>
      [] item = "img" ->
           <<El("img", <<"s">>), Tx(<<"z">>, FALSE), Tx(<<>>, TRUE)>>
      [] item = "text" -> <<Tx(<<"z">>, FALSE), Tx(<<>>, TRUE)>>
      [] item = "link2" ->
           <<El("a", Target(1)), Tx(<<"x">>, FALSE), Tx(<<"y">>, FALSE),
             Tx(<<>>, TRUE), EndA>>
      [] item = "nolink" ->
           <<El("a", <<>>), Tx(<<"x", ".">>, FALSE), Tx(<<>>, TRUE), EndA>>
      [] item = "amedia" -> <<El("a", <<"X">>), El("img", <<"Y">>), EndA>>
      [] item = "tamedia" ->
           <<El("a", <<"X">>), Tx(<<"x">>, FALSE), Tx(<<>>, TRUE),
             El("img", <<"Y">>), EndA>>
      [] item = "amediat" ->
           <<El("a", <<"X">>), El("img", <<"Y">>), Tx(<<"x">>, FALSE),
             Tx(<<>>, TRUE), EndA>>
      [] item = "imgdot" ->
           <<El("img", <<"s">>), Tx(<<"z", ".">>, FALSE), Tx(<<>>, TRUE)>>

Items == {"link", "longlink", "para", "br", "img"}

SeqsUpTo(S, n) == UNION {[1..m -> S] : m \in 0..n}

DocEvents(items) == Flatten([i \in 1..Len(items) |-> ItemEvents(items[i])])

\* What PostalMime's parse gives: it fails, or gives an email without a
\* subject, or an email with an HTML body, a plain-text body or none.
Mails(items, maxItems, maxAtt) ==
    {[parse |-> pr, body |-> "none", doctype |-> FALSE, events |-> <<>>,
      atts |-> 0] : pr \in {"fail", "nosubject"}}
    \cup {[parse |-> "ok", body |-> b, doctype |-> FALSE, events |-> <<>>,
           atts |-> n] : b \in {"text", "none"}, n \in 0..maxAtt}
    \cup {[parse |-> "ok", body |-> "html", doctype |-> d,
           events |-> DocEvents(its), atts |-> n] :
             d \in BOOLEAN, its \in SeqsUpTo(items, maxItems), n \in 0..maxAtt}

NoMail == [parse |-> "ok", body |-> "none", doctype |-> FALSE, events |-> <<>>,
           atts |-> 0]

\* ---- the texts email() hands to sendSplitMessage.  "HDR" stands for the
\* header lines (subject, From, To, Date), "html", "text", "====" for the
\* separator line, "(none)" for the no-content notice, "ERR" for the
\* escaped message of the error.
Separator(m) ==
    IF m.body = "html" THEN "html" ELSE IF m.body = "text" THEN "text" ELSE "===="

fullMessageText(sep, escaped) ==
    <<"HDR", sep>> \o (IF escaped = <<>> THEN <<"(none)">> ELSE escaped)
    \o <<"\n", " ">>

\* The plain-text body of the model's emails, before decoding and escaping.
PlainBody == <<"t", "&gt;">>

FallbackText == <<"\n", "HDR", "ERR", "\n">>

\* ------------------------------------------------------------ state
VARIABLES
    linksList,      \* the module-level queue of link descriptors [desc, link]
                    \* (by: history, the invocation that pushed it)
    nextId,         \* the message_id Telegram gives to the next message
    emails,         \* emails received so far
    pc,             \* per invocation of email(): where it stands
    mail,           \* the parsed email
    handler,        \* the ElementHandler of processHtml
    out,            \* the rewriter's output so far
    ev,             \* events of the body handled so far
    pushed,         \* history: the descriptors this email's handler pushed
    stage,          \* "main": the call of sendSplitMessage in the try block,
                    \* "fallback": the one in the catch block
    text,           \* the text of the current call of sendSplitMessage
    chunks,         \* its segment list
    k,              \* the index in chunks of the segment in flight
    lastMessageId,  \* 0 stands for null
    firstMessageId, \* what the main call of sendSplitMessage returned
    ai,             \* the index of the attachment in flight
    log,            \* history: the requests of this email and their outcomes
    used,           \* history: the descriptors the current call shifted
    esc             \* the results of the calls of escapeMarkdownV2 made on
                    \* their own: esc[n] is the result of the n-th

vars == <<linksList, nextId, emails, pc, mail, handler, out, ev, pushed, stage,
          text, chunks, k, lastMessageId, firstMessageId, ai, log, used, esc>>

transVars == <<handler, out, ev, pushed>>

\* ------------------------------------------------------------ delivery
\* The payload without its reply_to_message_id.
SegReqNoReply(stg, i, reply) ==
    [kind |-> "seg", stage |-> stg, idx |-> i, reply |-> 0,
     res |-> "pending", id |-> 0]

\* The sendMessage request for segment i of the text of stage stg: the
\* payload's reply_to_message_id is set when lastMessageId is.
SegReq(stg, i, reply) ==
    [kind |-> "seg", stage |-> stg, idx |-> i, reply |-> reply,
     res |-> "pending", id |-> 0]
AttReq(i, reply) ==
    [kind |-> "att", stage |-> "main", idx |-> i, reply |-> reply,
     res |-> "pending", id |-> 0]

\* The locals of invocation p, with the queue.
Local(p) ==
    [pc |-> pc[p], stage |-> stage[p], text |-> text[p], chunks |-> chunks[p],
     k |-> k[p], lastMessageId |-> lastMessageId[p],
     firstMessageId |-> firstMessageId[p], ai |-> ai[p],
     log |-> log[p], used |-> used[p], queue |-> linksList]

\* email() after sendSplitMessage returned id: the attachment loop.
Returned(l, atts, id) ==
    IF l.stage = "main"
    THEN IF atts > 0 /\ id # 0
         THEN [l EXCEPT !.firstMessageId = id, !.pc = "attaching", !.ai = 1,
                        !.log = Append(l.log, AttReq(1, id))]
         ELSE [l EXCEPT !.firstMessageId = id, !.pc = "done"]
    ELSE [l EXCEPT !.pc = "done"]

\* sendSplitMessage(t, env) called at stage stg, up to its first await: the
\* segment list is built, the queue shifted, the first request issued.
Call(l, atts, t, stg) ==
    LET r == BuildChunks(t, l.queue)
        l1 == [l EXCEPT !.stage = stg, !.text = t, !.chunks = r.chunks,
                        !.queue = r.queue,
                        !.used = SubSeq(l.queue, 1, Len(l.queue) - Len(r.queue)),
                        !.lastMessageId = 0, !.k = 0]
    IN  IF r.chunks = <<>> THEN Returned(l1, atts, 0)
        ELSE [l1 EXCEPT !.pc = "sending", !.k = 1,
                        !.log = Append(l1.log, SegReq(stg, 1, 0))]

\* An error raised inside the try block reaches the catch block, which
\* sends the fallback notification; one raised in the catch block, or before
\* the try block, leaves email().
Throw(l, atts) ==
    IF l.stage = "main" THEN Call(l, atts, FallbackText, "fallback")
    ELSE [l EXCEPT !.pc = "threw"]

Apply(p, l) ==
    /\ pc' = [pc EXCEPT ![p] = l.pc]
    /\ stage' = [stage EXCEPT ![p] = l.stage]
    /\ text' = [text EXCEPT ![p] = l.text]
    /\ chunks' = [chunks EXCEPT ![p] = l.chunks]
    /\ k' = [k EXCEPT ![p] = l.k]
    /\ lastMessageId' = [lastMessageId EXCEPT ![p] = l.lastMessageId]
    /\ firstMessageId' = [firstMessageId EXCEPT ![p] = l.firstMessageId]
    /\ ai' = [ai EXCEPT ![p] = l.ai]
    /\ log' = [log EXCEPT ![p] = l.log]
    /\ used' = [used EXCEPT ![p] = l.used]
    /\ linksList' = l.queue

\* The log with the outcome of its last request.
Answered(lg, res, id) ==
    [lg EXCEPT ![Len(lg)] = [@ EXCEPT !.res = res, !.id = id]]

\* The locals of a fresh invocation.
Fresh(p) ==
    [Local(p) EXCEPT !.pc = "idle", !.stage = "main", !.text = <<>>,
                     !.chunks = <<>>, !.k = 0, !.lastMessageId = 0,
                     !.firstMessageId = 0, !.ai = 0,
                     !.log = <<>>, !.used = <<>>]

\* ------------------------------------------------------------ actions
\* email() is invoked and runs to its first await after the parse: an error
\* before the try block leaves email(); an HTML body starts the rewriter;
\* any other body is escaped and handed to sendSplitMessage at once.
Receive(p, m) ==
    /\ pc[p] = "idle"
    /\ emails < MaxEmails
    /\ emails' = emails + 1
    /\ mail' = [mail EXCEPT ![p] = m]
    /\ handler' = [handler EXCEPT ![p] = NewHandler]
    /\ out' = [out EXCEPT ![p] =
                  IF m.body = "html" /\ m.doctype THEN <<"<!doctype>">> ELSE <<>>]
    /\ ev' = [ev EXCEPT ![p] = 0]
    /\ pushed' = [pushed EXCEPT ![p] = <<>>]
    /\ UNCHANGED <<nextId, esc>>
    /\ IF m.parse # "ok" THEN Apply(p, [Fresh(p) EXCEPT !.pc = "threw"])
       ELSE IF m.body = "html" THEN Apply(p, [Fresh(p) EXCEPT !.pc = "transform"])
       ELSE Apply(p, Call(Fresh(p), m.atts,
                          fullMessageText(Separator(m),
                              IF m.body = "text"
                              THEN escapeMarkdownV2(decode(PlainBody))
                              ELSE <<>>),
                          "main"))

NextEvent(p) == mail[p].events[ev[p] + 1]

InTransform(p) == pc[p] = "transform" /\ ev[p] < Len(mail[p].events)

\* The rewriter calls ElementHandler.element.
ElementEvent(p) ==
    /\ InTransform(p) /\ NextEvent(p).type = "element"
    /\ LET r == element(handler[p], NextEvent(p).tag, NextEvent(p).attr)
       IN  /\ handler' = [handler EXCEPT ![p] = r.h]
           /\ out' = [out EXCEPT ![p] = @ \o r.emit]
    /\ ev' = [ev EXCEPT ![p] = @ + 1]
    /\ UNCHANGED <<linksList, nextId, emails, pc, mail, pushed, stage, text,
                   chunks, k, lastMessageId, firstMessageId, ai, log, used, esc>>

\* The descriptors ds, each with the invocation that pushed it (history:
\* the code keeps desc and link only).
Owned(ds, p) ==
    [i \in 1..Len(ds) |-> [desc |-> ds[i].desc, link |-> ds[i].link, by |-> p]]

\* The rewriter calls ElementHandler.text.
TextEvent(p) ==
    /\ InTransform(p) /\ NextEvent(p).type = "text"
    /\ LET r == TextHandler(handler[p], NextEvent(p).run, NextEvent(p).last)
       IN  /\ handler' = [handler EXCEPT ![p] = r.h]
           /\ out' = [out EXCEPT ![p] = @ \o r.emit]
           /\ linksList' = linksList \o Owned(r.push, p)
           /\ pushed' = [pushed EXCEPT ![p] = @ \o Owned(r.push, p)]
    /\ ev' = [ev EXCEPT ![p] = @ + 1]
    /\ UNCHANGED <<nextId, emails, pc, mail, stage, text, chunks, k,
                   lastMessageId, firstMessageId, ai, log, used, esc>>

\* The rewriter calls the end-tag callback of an anchor.
EndTagEvent(p) ==
    /\ InTransform(p) /\ NextEvent(p).type = "endA"
    /\ handler' = [handler EXCEPT ![p] = onEndTag(@)]
    /\ ev' = [ev EXCEPT ![p] = @ + 1]
    /\ UNCHANGED <<linksList, nextId, emails, pc, mail, out, pushed, stage, text,
                   chunks, k, lastMessageId, firstMessageId, ai, log, used, esc>>

\* What processHtml returns once the rewriter has handled the whole body.
processHtml(p) == PostProcess(out[p])

\* The transform is done: processHtml returns, email() builds the message
\* and calls sendSplitMessage.
TransformDone(p) ==
    /\ pc[p] = "transform" /\ ev[p] = Len(mail[p].events)
    /\ Apply(p, Call(Local(p), mail[p].atts,
                     fullMessageText(Separator(mail[p]), processHtml(p)), "main"))
    /\ UNCHANGED <<nextId, emails, mail, transVars, esc>>

\* The transform rejects: the catch block sends the fallback notification.
TransformFail(p) ==
    /\ pc[p] = "transform"
    /\ Apply(p, Throw(Local(p), mail[p].atts))
    /\ UNCHANGED <<nextId, emails, mail, transVars, esc>>

\* The loop that goes on to the next segment after an answer that is not ok.
AfterSegmentGoesOn(l, atts, res, id) ==
    CASE res \in {"ok", "fail"} ->
           IF l.k < Len(l.chunks)
           THEN [l EXCEPT !.lastMessageId = IF res = "ok" THEN id ELSE @,
                          !.k = l.k + 1,
                          !.log = Append(l.log,
                                         SegReq(l.stage, l.k + 1,
                                                IF res = "ok" THEN id
                                                ELSE l.lastMessageId))]
           ELSE Returned([l EXCEPT !.lastMessageId = IF res = "ok" THEN id ELSE @],
                         atts, IF res = "ok" THEN id ELSE l.lastMessageId)
      [] OTHER -> Throw(l, atts)

\* sendSplitMessage after the answer res to the request for segment l.k
\* (id: the message_id of an ok answer): the next request, the return, or
\* the throw of line 84.
AfterSegment(l, atts, res, id) ==
    CASE res = "ok" ->
           IF l.k < Len(l.chunks)
           THEN [l EXCEPT !.lastMessageId = id, !.k = l.k + 1,
                          !.log = Append(l.log, SegReq(l.stage, l.k + 1, id))]
           ELSE Returned([l EXCEPT !.lastMessageId = id], atts, id)
      [] res = "fail" ->
           IF l.lastMessageId = 0 THEN Throw(l, atts)
           ELSE Returned(l, atts, l.lastMessageId)
      [] OTHER -> Throw(l, atts)

\* The answer to the sendMessage request in flight: ok with a message_id,
\* not ok, or the fetch (or the reading of its body) rejects.
SegmentResponse(p, res) ==
    /\ pc[p] = "sending"
    /\ LET id == IF res = "ok" THEN nextId ELSE 0
       IN  /\ nextId' = IF res = "ok" THEN nextId + 1 ELSE nextId
           /\ Apply(p, AfterSegment([Local(p) EXCEPT
                                        !.log = Answered(log[p], res, id)],
                                    mail[p].atts, res, id))
    /\ UNCHANGED <<emails, mail, transVars, esc>>

\* email() after the answer res to the request for attachment l.ai: a
\* response that is not ok is logged; a rejected fetch is an error raised in
\* the try block.
AfterAttachment(l, atts, res) ==
    IF res = "raise" THEN Throw(l, atts)
    ELSE IF l.ai < atts
    THEN [l EXCEPT !.ai = l.ai + 1,
                   !.log = Append(l.log, AttReq(l.ai + 1, l.firstMessageId))]
    ELSE [l EXCEPT !.pc = "done"]

\* The answer to the sendDocument request in flight.
AttachmentResponse(p, res) ==
    /\ pc[p] = "attaching"
    /\ Apply(p, AfterAttachment([Local(p) EXCEPT
                                    !.log = Answered(log[p], res, 0)],
                                mail[p].atts, res))
    /\ UNCHANGED <<nextId, emails, mail, transVars, esc>>

\* email() has returned, or an error has left it: its locals are gone.
Finish(p) ==
    /\ pc[p] \in {"done", "threw"}
    /\ Apply(p, Fresh(p))
    /\ mail' = [mail EXCEPT ![p] = NoMail]
    /\ handler' = [handler EXCEPT ![p] = NewHandler]
    /\ out' = [out EXCEPT ![p] = <<>>]
    /\ ev' = [ev EXCEPT ![p] = 0]
    /\ pushed' = [pushed EXCEPT ![p] = <<>>]
    /\ UNCHANGED <<nextId, emails, esc>>

Outcomes == {"ok", "fail", "raise"}

Step(p, inbox) ==
    \/ \E m \in inbox : Receive(p, m)
    \/ Finish(p)
    \/ ElementEvent(p)
    \/ TextEvent(p)
    \/ EndTagEvent(p)
    \/ TransformDone(p)
    \/ TransformFail(p)
    \/ \E res \in Outcomes : SegmentResponse(p, res)
    \/ \E res \in Outcomes : AttachmentResponse(p, res)

Idle ==
    /\ linksList = <<>>
    /\ nextId = 1
    /\ emails = 0
    /\ pc = [p \in Procs |-> "idle"]
    /\ mail = [p \in Procs |-> NoMail]
    /\ handler = [p \in Procs |-> NewHandler]
    /\ out = [p \in Procs |-> <<>>]
    /\ ev = [p \in Procs |-> 0]
    /\ pushed = [p \in Procs |-> <<>>]
    /\ stage = [p \in Procs |-> "main"]
    /\ text = [p \in Procs |-> <<>>]
    /\ chunks = [p \in Procs |-> <<>>]
    /\ k = [p \in Procs |-> 0]
    /\ lastMessageId = [p \in Procs |-> 0]
    /\ firstMessageId = [p \in Procs |-> 0]
    /\ ai = [p \in Procs |-> 0]
    /\ log = [p \in Procs |-> <<>>]
    /\ used = [p \in Procs |-> <<>>]
    /\ esc = <<>>

\* Emails handled at the same time: the invocations interleave at their awaits.
Init == Idle
ConcMails == Mails({"link", "para"}, MaxItemsConc, MaxAttConc)
Next == \E p \in Procs : Step(p, ConcMails)
Spec == Init /\ [][Next]_vars

\* Emails handled one after another by one invocation at a time.
InitSeq == Idle
SeqMails ==
    Mails(Items, IF emails = 0 THEN MaxItems ELSE MaxItemsLater, MaxAtt)
NextSeq == Step(1, SeqMails)
SpecSeq == InitSeq /\ [][NextSeq]_vars

\* ------------------------------------------------------------ the transducer alone
\* One email with an HTML body of at most MaxTransItems elements, anchors
\* with and without target and anchors around a media element among them,
\* up to the call of sendSplitMessage.
MaxTransItems == 2
TransItems ==
    {"link", "link2", "nolink", "para", "img", "text", "amedia", "tamedia",
     "amediat", "imgdot"}
TransMails ==
    {[parse |-> "ok", body |-> "html", doctype |-> d,
      events |-> DocEvents(its), atts |-> 0] :
        d \in BOOLEAN, its \in SeqsUpTo(TransItems, MaxTransItems)}
InitTrans == Idle
NextTrans ==
    \/ \E m \in TransMails : Receive(1, m)
    \/ ElementEvent(1)
    \/ TextEvent(1)
    \/ EndTagEvent(1)
    \/ TransformDone(1)
SpecTrans == InitTrans /\ [][NextTrans]_vars

\* ------------------------------------------------------------ the chunker alone
\* sendSplitMessage on any text of at most MaxMarkers markers and any queue
\* of at most MaxQueue descriptors, whatever put them there.
PlainChars == <<"a", "b", "c">>
DescChars == <<"p", "q", "r", "s", "t", "v", "w">>

\* The j-th plain-text fragment, of n characters.
PlainFrag(j, n) == [i \in 1..n |-> PlainChars[((i + j) % 3) + 1]]

\* Fragment lengths around the limit, and link targets that render to less
\* than the limit, to the limit and to more than the limit (with the 6
\* characters of markup and a 1-character description).
FragLens ==
    {0, 1, 2, MAX_TELEGRAM_MESSAGE_LENGTH - 1, MAX_TELEGRAM_MESSAGE_LENGTH,
     MAX_TELEGRAM_MESSAGE_LENGTH + 1, 2 * MAX_TELEGRAM_MESSAGE_LENGTH + 1}
TargetLens ==
    {1, MAX_TELEGRAM_MESSAGE_LENGTH - 7, MAX_TELEGRAM_MESSAGE_LENGTH - 6}

RECURSIVE Join(_)
Join(frags) ==
    IF Len(frags) = 1 THEN frags[1]
    ELSE frags[1] \o Marker \o Join(Tail(frags))

\* The total rendered length of the one-link scenario: 5000 characters
\* against a limit of 3500, in the scale of the model.
ScenarioLen == (MAX_TELEGRAM_MESSAGE_LENGTH * 10) \div 7

\* The one-marker texts that reach ScenarioLen with a rendered link of 8
\* characters or more, the marker at any position.
ScenarioTexts ==
    {Join(<<PlainFrag(1, a), PlainFrag(2, b)>>) :
        a \in 0..ScenarioLen, b \in 0..(ScenarioLen - 8)}

\* The texts with exactly two segments of plain text before their marker.
ExactFitTexts ==
    {Join(<<PlainFrag(1, 2 * MAX_TELEGRAM_MESSAGE_LENGTH), PlainFrag(2, b)>>) :
        b \in 0..1}

ChunkTexts ==
    {Join([j \in 1..Len(lens) |-> PlainFrag(j, lens[j])]) :
        lens \in UNION {[1..(m + 1) -> FragLens] : m \in 0..MaxMarkers}}
    \cup ExactFitTexts

ChunkQueues ==
    {[j \in 1..Len(ns) |->
         [desc |-> <<DescChars[j]>>, link |-> Target(ns[j]), by |-> 0]] :
        ns \in SeqsUpTo(TargetLens, MaxQueue)}

\* sendSplitMessage is about to be called on one of texts.
ChunkInputs(texts) ==
    /\ linksList \in ChunkQueues
    /\ nextId = 1
    /\ emails = 1
    /\ pc = [p \in Procs |-> IF p = 1 THEN "call" ELSE "idle"]
    /\ mail = [p \in Procs |-> NoMail]
    /\ handler = [p \in Procs |-> NewHandler]
    /\ out = [p \in Procs |-> <<>>]
    /\ ev = [p \in Procs |-> 0]
    /\ pushed = [p \in Procs |-> <<>>]
    /\ stage = [p \in Procs |-> "main"]
    /\ \E t \in texts : text = [p \in Procs |-> IF p = 1 THEN t ELSE <<>>]
    /\ chunks = [p \in Procs |-> <<>>]
    /\ k = [p \in Procs |-> 0]
    /\ lastMessageId = [p \in Procs |-> 0]
    /\ firstMessageId = [p \in Procs |-> 0]
    /\ ai = [p \in Procs |-> 0]
    /\ log = [p \in Procs |-> <<>>]
    /\ used = [p \in Procs |-> <<>>]
    /\ esc = <<>>

\* sendSplitMessage(text, env) is called.
ChunkCall(p) ==
    /\ pc[p] = "call"
    /\ Apply(p, Call(Local(p), 0, text[p], "main"))
    /\ UNCHANGED <<nextId, emails, mail, transVars, esc>>

InitChunk == ChunkInputs(ChunkTexts)
NextChunk == ChunkCall(1)
SpecChunk == InitChunk /\ [][NextChunk]_vars

\* sendSplitMessage on the texts of the one-link scenario.
InitScenario == ChunkInputs(ScenarioTexts)
SpecScenario == InitScenario /\ [][NextChunk]_vars

\* ------------------------------------------------------------ the escaper alone
\* escapeMarkdownV2 on any text of at most MaxEscLen characters over reserved
\* characters, the backslash and an ordinary character, and then on its own
\* result.
MaxEscLen == 4
EscChars == {".", "#", "\\", "a"}
EscTexts == SeqsUpTo(EscChars, MaxEscLen)

InitEsc ==
    /\ linksList = <<>>
    /\ nextId = 1
    /\ emails = 1
    /\ pc = [p \in Procs |-> IF p = 1 THEN "escape" ELSE "idle"]
    /\ mail = [p \in Procs |-> NoMail]
    /\ handler = [p \in Procs |-> NewHandler]
    /\ out = [p \in Procs |-> <<>>]
    /\ ev = [p \in Procs |-> 0]
    /\ pushed = [p \in Procs |-> <<>>]
    /\ stage = [p \in Procs |-> "main"]
    /\ \E t \in EscTexts : text = [p \in Procs |-> IF p = 1 THEN t ELSE <<>>]
    /\ chunks = [p \in Procs |-> <<>>]
    /\ k = [p \in Procs |-> 0]
    /\ lastMessageId = [p \in Procs |-> 0]
    /\ firstMessageId = [p \in Procs |-> 0]
    /\ ai = [p \in Procs |-> 0]
    /\ log = [p \in Procs |-> <<>>]
    /\ used = [p \in Procs |-> <<>>]
    /\ esc = <<>>

\* escapeMarkdownV2 is called on the text, or on the result of the call
\* before.
EscapeCall(p) ==
    /\ pc[p] = "escape"
    /\ Len(esc) < 2
    /\ esc' = Append(esc, escapeMarkdownV2(IF esc = <<>> THEN text[p]
                                           ELSE esc[Len(esc)]))
    /\ UNCHANGED <<linksList, nextId, emails, pc, mail, transVars, stage, text,
                   chunks, k, lastMessageId, firstMessageId, ai, log, used>>

NextEsc == EscapeCall(1)
SpecEsc == InitEsc /\ [][NextEsc]_vars

\* ------------------------------------------------------------ properties
\* sendSplitMessage has built the segment list of invocation p.
Built(p) == pc[p] \in {"sending", "attaching", "done"}

\* sub stands whole in seg.
Contains(seg, sub) ==
    \E i \in 0..(Len(seg) - Len(sub)) : SubSeq(seg, i + 1, i + Len(sub)) = sub

CountMarkers(t) == Len(Split(t)) - 1

\* text with its i-th marker replaced by the rendered i-th descriptor of q,
\* for the markers that have one.
RECURSIVE Substitute(_, _)
Substitute(t, q) ==
    LET i == FirstMarker(t)
    IN  IF i = 0 \/ q = <<>> THEN t
        ELSE SubSeq(t, 1, i - 1) \o linkEntity(Head(q))
             \o Substitute(SubSeq(t, i + MarkerLen, Len(t)), Tail(q))

\* C1 (as claimed): every segment sendSplitMessage puts in its list has at
\* most MAX_TELEGRAM_MESSAGE_LENGTH characters, for every text and every
\* content of the queue.
C1_SizeBound ==
    \A p \in Procs : \A i \in 1..Len(chunks[p]) :
        Len(chunks[p][i]) <= MAX_TELEGRAM_MESSAGE_LENGTH

\* C2 (as claimed): every rendered link stands whole in one segment.
C2_LinkAtomic ==
    \A p \in Procs : Built(p) =>
        \A j \in 1..Len(used[p]) :
            \E i \in 1..Len(chunks[p]) :
                Contains(chunks[p][i], linkEntity(used[p][j]))

\* C2 (amended): every rendered link of at most MAX_TELEGRAM_MESSAGE_LENGTH
\* characters stands whole in one segment.
C2_FittingLinkAtomic ==
    \A p \in Procs : Built(p) =>
        \A j \in 1..Len(used[p]) :
            Len(linkEntity(used[p][j])) <= MAX_TELEGRAM_MESSAGE_LENGTH =>
                \E i \in 1..Len(chunks[p]) :
                    Contains(chunks[p][i], linkEntity(used[p][j]))

\* A link was rendered into the builder, the fragment after it made the
\* builder overflow, and splitAndPush cut a full segment that holds the link
\* and the text after it.
C2_Witness ==
    /\ Built(1) /\ Len(used[1]) >= 1 /\ Len(chunks[1]) >= 2
    /\ \E i \in 1..(Len(chunks[1]) - 1) :
          /\ Len(chunks[1][i]) = MAX_TELEGRAM_MESSAGE_LENGTH
          /\ \E c \in {"a", "b", "c"} :
                Contains(chunks[1][i], linkEntity(used[1][1]) \o <<c>>)

\* C6: when the text holds as many markers as the queue holds descriptors,
\* the segments in order make up the text with its i-th marker replaced by
\* the rendered i-th descriptor, and no segment holds a marker.
C6_Concatenation ==
    \A p \in Procs :
        (Built(p) /\ linksList = <<>> /\ CountMarkers(text[p]) = Len(used[p])) =>
            /\ Flatten(chunks[p]) = Substitute(text[p], used[p])
            /\ FirstMarker(Flatten(chunks[p])) = 0

\* Two markers, two descriptors, and text cut into three segments or more.
C6_Witness ==
    /\ Built(1) /\ linksList = <<>>
    /\ CountMarkers(text[1]) = 2 /\ Len(used[1]) = 2
    /\ Len(chunks[1]) >= 3

\* C3 (as claimed): every descriptor an invocation's call of sendSplitMessage
\* shifted and rendered was pushed by that same invocation's handler, and
\* the main call's i-th descriptor is the i-th one its handler pushed.
C3_Isolation ==
    \A p \in Procs : Built(p) =>
        /\ \A i \in 1..Len(used[p]) : used[p][i].by = p
        /\ stage[p] = "main" =>
              /\ Len(used[p]) <= Len(pushed[p])
              /\ \A i \in 1..Len(used[p]) : used[p][i] = pushed[p][i]

\* C4 (as claimed): with one email handled at a time, the queue is empty
\* when an email's handling starts and when sendSplitMessage has built the
\* segment list.
C4_QueueEmpty ==
    (pc[1] = "idle" \/ Built(1)) => linksList = <<>>

\* C5 (as claimed): what the transducer returns for an HTML body holds as
\* many markers as its handler pushed descriptors.
C5_MarkerCount ==
    \A p \in Procs :
        (Built(p) /\ stage[p] = "main" /\ mail[p].body = "html") =>
            CountMarkers(processHtml(p)) = Len(pushed[p])

\* ---- the requests of one email, from its log
IsSeg(r) == r.kind = "seg"
IsAtt(r) == r.kind = "att"

\* C7: a request is issued only after every earlier one was answered; the
\* first segment of a text carries no reply reference; the request for
\* segment i+1 directly follows the ok answer to segment i of the same text
\* and carries the message_id of that answer.
C7_ReplyChain ==
    \A p \in Procs : \A j \in 1..Len(log[p]) :
        LET r == log[p][j]
        IN  /\ j < Len(log[p]) => r.res # "pending"
            /\ (IsSeg(r) /\ r.idx = 1) => r.reply = 0
            /\ (IsSeg(r) /\ r.idx > 1) =>
                  /\ j > 1
                  /\ IsSeg(log[p][j - 1])
                  /\ log[p][j - 1].stage = r.stage
                  /\ log[p][j - 1].idx = r.idx - 1
                  /\ log[p][j - 1].res = "ok"
                  /\ log[p][j - 1].id # 0
                  /\ r.reply = log[p][j - 1].id

\* Three segments of the main message delivered in a row.
C7_Witness ==
    /\ Len(log[1]) >= 3
    /\ \A j \in 1..3 : /\ IsSeg(log[1][j]) /\ log[1][j].stage = "main"
                       /\ log[1][j].idx = j /\ log[1][j].res = "ok"

\* The message_id of the first delivered segment of the main message.
FirstDelivered(lg) ==
    LET oks == {j \in 1..Len(lg) :
                   IsSeg(lg[j]) /\ lg[j].stage = "main" /\ lg[j].res = "ok"}
    IN  IF oks = {} THEN 0
        ELSE lg[CHOOSE j \in oks : \A o \in oks : j <= o].id

\* C8 (as claimed): every attachment is sent as a reply to the first
\* delivered segment of its email.
C8_ReplyToFirst ==
    \A p \in Procs : \A j \in 1..Len(log[p]) :
        IsAtt(log[p][j]) => log[p][j].reply = FirstDelivered(log[p])

\* Every segment of the main message was delivered.
AllMainDelivered(lg) ==
    /\ \E j \in 1..Len(lg) : IsSeg(lg[j]) /\ lg[j].stage = "main"
    /\ \A j \in 1..Len(lg) :
          (IsSeg(lg[j]) /\ lg[j].stage = "main") => lg[j].res = "ok"

\* The attachments requested, in the order of the requests.
AttIdx(lg) ==
    LET atts == SelectSeq(lg, IsAtt) IN [j \in 1..Len(atts) |-> atts[j].idx]

\* C9 (as claimed): for an email whose main segments were all delivered,
\* every attachment request comes after the last segment of the main
\* message, a request is answered before the next one is made, and when
\* email() is over each attachment of the email was requested exactly once,
\* in the order of the attachment list.
C9_AttachmentsOnceInOrder ==
    \A p \in Procs :
        AllMainDelivered(log[p]) =>
            /\ \A j \in 1..Len(log[p]) : \A j2 \in 1..Len(log[p]) :
                  (IsAtt(log[p][j]) /\ IsSeg(log[p][j2])
                       /\ log[p][j2].stage = "main") => j2 < j
            /\ \A j \in 1..(Len(log[p]) - 1) : log[p][j].res # "pending"
            /\ pc[p] \in {"done", "threw"} =>
                  AttIdx(log[p]) = [i \in 1..mail[p].atts |-> i]

\* C10: once the answer to a segment's request is not ok, no segment of the
\* same text is requested again, neither a later one nor the same one.
C10_NoSendAfterFailure ==
    \A p \in Procs : \A j \in 1..Len(log[p]) : \A j2 \in (j + 1)..Len(log[p]) :
        (IsSeg(log[p][j]) /\ log[p][j].res = "fail" /\ IsSeg(log[p][j2])) =>
            log[p][j2].stage # log[p][j].stage

\* The second segment of a main message of three or more failed, and
\* email() went on to the attachments and ended.
C10_Witness ==
    /\ pc[1] = "done" /\ Len(chunks[1]) >= 3 /\ stage[1] = "main"
    /\ Len(log[1]) >= 3
    /\ IsSeg(log[1][2]) /\ log[1][2].res = "fail"
    /\ IsAtt(log[1][3])

\* The message_id of the last segment of the stage of lg[j] delivered before
\* request j, 0 when there is none.
LastDeliveredBefore(lg, j) ==
    LET oks == {i \in 1..(j - 1) :
                   IsSeg(lg[i]) /\ lg[i].stage = lg[j].stage /\ lg[i].res = "ok"}
    IN  IF oks = {} THEN 0
        ELSE lg[CHOOSE i \in oks : \A o \in oks : o <= i].id

\* C11 (as claimed): a segment request answered not ok makes sendSplitMessage
\* return, at every position, the first included: the call of the try block
\* does not pass control to the catch block (no fallback notification
\* follows the failure directly), the call of the catch block does not raise
\* out of email(), and when a segment of the main message was delivered
\* before the failure and the email has attachments, the next request is the
\* first attachment, sent as a reply to the last delivered segment.
C11_FailureReturned ==
    \A p \in Procs : \A j \in 1..Len(log[p]) :
        (IsSeg(log[p][j]) /\ log[p][j].res = "fail") =>
            /\ ~(j = Len(log[p]) /\ pc[p] = "threw")
            /\ j < Len(log[p]) =>
                  ~(IsSeg(log[p][j + 1]) /\ log[p][j + 1].stage = "fallback"
                        /\ log[p][j].stage = "main")
            /\ (log[p][j].stage = "main" /\ mail[p].atts > 0
                    /\ LastDeliveredBefore(log[p], j) # 0) =>
                  /\ j < Len(log[p])
                  /\ IsAtt(log[p][j + 1])
                  /\ log[p][j + 1].reply = LastDeliveredBefore(log[p], j)

\* C12 (as claimed): an attachment whose delivery failed (the answer is not
\* ok, or the request itself is rejected) is followed directly by the
\* request for the next attachment of the list, and no attachment is
\* requested twice.
C12_AttachmentFailureIsolated ==
    \A p \in Procs :
        /\ \A j \in 1..Len(log[p]) :
              (IsAtt(log[p][j]) /\ log[p][j].res \in {"fail", "raise"}
                   /\ log[p][j].idx < mail[p].atts) =>
                  /\ j < Len(log[p])
                  /\ IsAtt(log[p][j + 1])
                  /\ log[p][j + 1].idx = log[p][j].idx + 1
        /\ \A j \in 1..Len(log[p]) : \A j2 \in 1..Len(log[p]) :
              (IsAtt(log[p][j]) /\ IsAtt(log[p][j2]) /\ j # j2) =>
                  log[p][j].idx # log[p][j2].idx

\* C13 (as claimed): no error leaves email(), on any path.
C13_NoErrorEscapes ==
    \A p \in Procs : pc[p] # "threw"

\* C14 (as claimed): when the parse of the raw email failed and email() is
\* over, the fallback notification was sent exactly once, and neither a
\* segment of a main message nor an attachment was requested.
C14_ParseFailureFallback ==
    \A p \in Procs :
        (pc[p] \in {"done", "threw"} /\ mail[p].parse = "fail") =>
            /\ Cardinality({j \in 1..Len(log[p]) :
                               /\ IsSeg(log[p][j])
                               /\ log[p][j].stage = "fallback"
                               /\ log[p][j].idx = 1}) = 1
            /\ \A j \in 1..Len(log[p]) :
                  IsSeg(log[p][j]) /\ log[p][j].stage = "fallback"

\* C15: escaping an escaped text changes nothing, and in an escaped text
\* every reserved character stands directly after a backslash.
C15_EscapeIdempotent ==
    /\ Len(esc) >= 2 => esc[2] = esc[1]
    /\ Len(esc) >= 1 =>
          \A i \in 1..Len(esc[1]) :
              esc[1][i] \in Reserved => (i > 1 /\ esc[1][i - 1] = "\\")

\* A text with a reserved character that had no backslash before it and with
\* one that had, escaped twice.
C15_Witness ==
    /\ Len(esc) = 2
    /\ \E i \in 1..Len(text[1]) :
          text[1][i] \in Reserved /\ (i = 1 \/ text[1][i - 1] # "\\")
    /\ \E i \in 2..Len(text[1]) :
          text[1][i] \in Reserved /\ text[1][i - 1] = "\\"

\* ---- the transducer, from the events of the body
\* The rewriter has handled the whole HTML body of invocation p.
Transformed(p) ==
    pc[p] # "idle" /\ mail[p].body = "html" /\ ev[p] = Len(mail[p].events)

\* The descriptors invocation p pushed whose target is t.
PushedFor(p, t) == {i \in 1..Len(pushed[p]) : pushed[p][i].link = t}

\* The anchors with target t among the first n events of the body of p.
AnchorsOf(p, t, n) ==
    {i \in 1..n : /\ mail[p].events[i].type = "element"
                  /\ mail[p].events[i].tag = "a"
                  /\ mail[p].events[i].attr = t}

\* C16 (as claimed): every anchor with target X around a media element with
\* source Y yields exactly one descriptor, with target X, and none for Y.
C16_AnchorMediaOneDescriptor ==
    \A p \in Procs : Transformed(p) =>
        /\ Cardinality(PushedFor(p, <<"X">>))
              = Cardinality(AnchorsOf(p, <<"X">>, Len(mail[p].events)))
        /\ PushedFor(p, <<"Y">>) = {}

\* ---- the scenario of one link in a text of ScenarioLen rendered characters
\* The call of invocation p had a text with one marker and a queue of one
\* descriptor whose rendering fits a segment, ScenarioLen characters in all.
OneLinkScenario(p) ==
    /\ Built(p) /\ linksList = <<>>
    /\ CountMarkers(text[p]) = 1 /\ Len(used[p]) = 1
    /\ Len(linkEntity(used[p][1])) <= MAX_TELEGRAM_MESSAGE_LENGTH
    /\ Len(Substitute(text[p], used[p])) = ScenarioLen

\* The segments of invocation p that hold the rendered link whole.
HoldLink(p) ==
    {i \in 1..Len(chunks[p]) : Contains(chunks[p][i], linkEntity(used[p][1]))}

\* C17 (as claimed): the text of the scenario is cut into exactly two
\* segments, and the link stands whole in exactly one of them.
C17_TwoSegments ==
    \A p \in Procs : OneLinkScenario(p) =>
        /\ Len(chunks[p]) = 2
        /\ Cardinality(HoldLink(p)) = 1

\* C17 (amended): the text of the scenario is cut into two segments when the
\* link fits a segment together with the text before it or together with the
\* text after it, and into three otherwise; the link stands whole in exactly
\* one of them.
C17_TwoOrThreeSegments ==
    \A p \in Procs : OneLinkScenario(p) =>
        LET a == Len(Split(text[p])[1])
            b == Len(Split(text[p])[2])
            l == Len(linkEntity(used[p][1]))
        IN  /\ Len(chunks[p]) =
                  IF a + l <= MAX_TELEGRAM_MESSAGE_LENGTH
                     \/ l + b <= MAX_TELEGRAM_MESSAGE_LENGTH
                  THEN 2 ELSE 3
            /\ Cardinality(HoldLink(p)) = 1

\* The scenario with the link in the middle: the text before it is flushed,
\* the link and the text after it overflow, three segments.
C17_Witness ==
    /\ OneLinkScenario(1)
    /\ Len(chunks[1]) = 3
    /\ HoldLink(1) = {2}

\* C18 (as claimed): a call on a text with n markers shifts at most n
\* descriptors, and its segments make up the text with no more than its
\* markers replaced by links (a marker without descriptor is dropped): a
\* descriptor the queue holds beyond the markers is not appended.
C18_NoExcessLink ==
    \A p \in Procs : Built(p) =>
        LET n == CountMarkers(text[p])
            queue == used[p] \o linksList
        IN  /\ Len(used[p]) <= n
            /\ Flatten(chunks[p])
                  = Flatten(Split(Substitute(text[p],
                                             SubSeq(queue, 1, Min(n, Len(queue))))))

\* The start tag of the anchor that is open after the events handled so far
\* (its index in the events of the body), 0 when no anchor is open.
OpenAnchor(p) ==
    LET open == {i \in 1..ev[p] :
                    /\ mail[p].events[i].type = "element"
                    /\ mail[p].events[i].tag = "a"
                    /\ \A j \in (i + 1)..ev[p] : mail[p].events[j].type # "endA"}
    IN  IF open = {} THEN 0 ELSE CHOOSE i \in open : \A o \in open : o <= i

\* The targets of the anchors of the body of p.
AnchorTargets(p) ==
    {mail[p].events[i].attr :
        i \in {j \in 1..Len(mail[p].events) :
                  /\ mail[p].events[j].type = "element"
                  /\ mail[p].events[j].tag = "a"}} \ {<<>>}

\* The text callback runs on a text chunk inside an anchor without target.
NoTargetRun(p) ==
    /\ pc[p] = "transform"
    /\ ev'[p] = ev[p] + 1
    /\ NextEvent(p).type = "text"
    /\ OpenAnchor(p) # 0
    /\ mail[p].events[OpenAnchor(p)].attr = <<>>

\* The chunk stands in the output decoded and escaped, as text of an inline
\* element or of a block, and nothing was pushed.
OrdinaryText(p) ==
    LET t == escapeMarkdownV2(decode(NextEvent(p).run))
    IN  /\ out'[p] \in {out[p] \o t, out[p] \o t \o <<"\n">>}
        /\ pushed'[p] = pushed[p]
        /\ linksList' = linksList

\* C19: a text chunk inside an anchor without target is emitted as ordinary
\* decoded and escaped text, without marker and without descriptor; and the
\* anchors with a target t never have more descriptors than there were
\* start tags with that target.
C19_AnchorTarget ==
    /\ [][\A p \in Procs : NoTargetRun(p) => OrdinaryText(p)]_vars
    /\ [](\A p \in Procs : \A t \in AnchorTargets(p) :
             Cardinality(PushedFor(p, t)) <= Cardinality(AnchorsOf(p, t, ev[p])))

\* A body with an anchor whose text came in two chunks and an anchor without
\* target: one descriptor, and the text of the second anchor escaped.
C19_Witness ==
    /\ Transformed(1)
    /\ AnchorsOf(1, <<>>, Len(mail[1].events)) # {}
    /\ AnchorsOf(1, Target(1), Len(mail[1].events)) # {}
    /\ Len(mail[1].events) = 9
    /\ Len(pushed[1]) = 1
    /\ Contains(out[1], <<"x", "\\", ".">>)

\* C20 (as claimed): no segment of a segment list is empty.
C20_NoEmptySegment ==
    \A p \in Procs : \A i \in 1..Len(chunks[p]) : Len(chunks[p][i]) >= 1

\* C21 (as claimed): the fallback notification is requested only for an
\* email of whose main message no segment was delivered.
C21_FallbackOnlyUndelivered ==
    \A p \in Procs : \A j \in 1..Len(log[p]) : \A j2 \in 1..(j - 1) :
        (IsSeg(log[p][j]) /\ log[p][j].stage = "fallback") =>
            ~(IsSeg(log[p][j2]) /\ log[p][j2].stage = "main"
                  /\ log[p][j2].res = "ok")

\* The text callback runs on a text chunk.
TextRun(p) ==
    /\ pc[p] = "transform"
    /\ ev'[p] = ev[p] + 1
    /\ NextEvent(p).type = "text"

\* The chunk left the handler as a placeholder marker or decoded and
\* escaped (as text of an inline element or of a block; after the content of
\* a table cell comes a space).
RunReplaced(p) ==
    LET t == escapeMarkdownV2(decode(NextEvent(p).run))
        after == IF handler[p].tag = "td" THEN <<" ">> ELSE <<>>
    IN  out'[p] \in {out[p] \o Marker \o after,
                     out[p] \o t \o after,
                     out[p] \o t \o <<"\n">> \o after}

\* C22 (as claimed): every text chunk passed to the text callback leaves it
\* replaced by a placeholder marker or by its decoded and escaped form; in
\* no state of the handler does a chunk pass through as it came.
C22_RunReplaced ==
    [][\A p \in Procs : TextRun(p) => RunReplaced(p)]_vars

=============================================================================
